---- MODULE Spec2Model ----
(***************************************************************************)
(* State-machine model of randomMusicGenerator.py: the chord progression,  *)
(* the four pattern generators (drums, bass, harmony, melody with its      *)
(* L-system durations) and combine_and_write_midi.                         *)
(*                                                                         *)
(* One behaviour is one run of the script's main block.  The user's        *)
(* answers (measures, beats per measure, tempo) are chosen in Init.  Each  *)
(* call into the random module is a nondeterministic choice.  To keep the  *)
(* runs enumerable the random source is an input of the run as well:       *)
(* rand_focus names the one part of the program whose draws range over     *)
(* their outcomes in this run (the melody's set-up, its L-system depth and *)
(* phrase length, is a part of its own), and whether these are its count   *)
(* draws (how many hits, subdivisions, presses, notes, rewrite passes) or  *)
(* its value draws (pitches, velocities, offsets, keys).  Every other draw *)
(* yields the first outcome of its range.  A value draw from a list or an integer *)
(* range is sampled at the two ends of the range, random.random() on a     *)
(* grid of RandomGrid points of [0, 1).                                    *)
(*                                                                         *)
(* Floats: beats_per_chord = float(beats_per_measure) is integral, so the  *)
(* tick arithmetic is integer arithmetic.  The L-system durations 1.0 and  *)
(* 0.5 are held doubled (2 and 1, in half beats).                          *)
(***************************************************************************)
EXTENDS Integers, Sequences, FiniteSets

\* ---------------------------------------------------------------- bounds
MaxMeasures == 2
MaxBeats == 4
RandomGrid == 4

\* ------------------------------------------------------------- constants
TICKS_PER_BEAT == 480

RANDOM_INSTRUMENTS == <<0, 17, 52, 56, 80, 30, 19, 73, 42, 13>>

DRUM_NOTES == <<35, 36, 38, 40, 41, 42, 43, 46, 49, 51, 57>>

VARIABLES
    pc,                 \* position in the main block / the running function
    rand_focus,         \* <<part, "counts" | "values">>: the free draws
    total_measures,     \* user input, step 1
    beats_per_measure,  \* user input, step 2
    user_tempo,         \* user input, step 3
    chords,             \* get_random_chord_progression's triads
    scale_info,         \* its label: <<root name, octave, mode name>>
    drum_track,         \* event lists, absolute ticks
    bass_track,
    harmony_track,
    melody_track,
    idx,                \* loop index of the running generator (chords done)
    current_time,       \* the running generator's tick cursor
    scale_notes,        \* the melody's two-octave scale
    depth,              \* l_system: passes asked for
    passes,             \* l_system: passes done
    cur,                \* l_system: the current string
    durations_list,     \* lsystem_durations' result, in half beats
    phrase,             \* the melody's phrase of scale indices
    lsys_idx,           \* the melody's position in durations_list
    mid,                \* the MidiFile: a sequence of tracks of messages
    saved               \* what mid.save wrote (<<>> before)

vars == <<pc, rand_focus, total_measures, beats_per_measure, user_tempo,
          chords, scale_info, drum_track, bass_track, harmony_track,
          melody_track, idx, current_time, scale_notes, depth, passes, cur,
          durations_list, phrase, lsys_idx, mid, saved>>

\* ------------------------------------------------------ the random source
Focuses ==
    {<<"drums", "counts">>, <<"bass", "counts">>, <<"harmony", "counts">>,
     <<"melody_setup", "counts">>, <<"melody", "counts">>,
     <<"drums", "values">>, <<"bass", "values">>, <<"harmony", "values">>,
     <<"melody", "values">>, <<"combine", "values">>}

\* The chord progression's draws are free with the bass's and the harmony's
\* value draws, whose pitches are built on the chords.
ValuesFree(part) ==
    /\ rand_focus[2] = "values"
    /\ \/ rand_focus[1] = part
       \/ part = "chords" /\ rand_focus[1] \in {"bass", "harmony"}

CountsFree(part) == rand_focus = <<part, "counts">>

\* random.randint(lo, hi) deciding how many: hits, subdivisions, ...
randint_count(part, lo, hi) == IF CountsFree(part) THEN lo .. hi ELSE {lo}

\* random.randint(lo, hi) deciding a value: a velocity, an octave, an index
randint_value(part, lo, hi) == IF ValuesFree(part) THEN {lo, hi} ELSE {lo}

\* random.choice(seq)
choice(part, seq) ==
    IF ValuesFree(part) THEN {seq[1], seq[Len(seq)]} ELSE {seq[1]}

\* random.random(): the numerator u of u / RandomGrid
random(part) == IF ValuesFree(part) THEN 0 .. (RandomGrid - 1) ELSE {0}

\* random.random() < tenths / 10
Below(u, tenths) == u * 10 < tenths * RandomGrid

\* ---------------------------------------------------------------- helpers
note_map ==
    [n \in {"C", "C#", "Db", "D", "D#", "Eb", "E", "F", "F#", "Gb", "G",
            "G#", "Ab", "A", "A#", "Bb", "B"} |->
        CASE n = "C" -> 0
          [] n \in {"C#", "Db"} -> 1
          [] n = "D" -> 2
          [] n \in {"D#", "Eb"} -> 3
          [] n = "E" -> 4
          [] n = "F" -> 5
          [] n \in {"F#", "Gb"} -> 6
          [] n = "G" -> 7
          [] n \in {"G#", "Ab"} -> 8
          [] n = "A" -> 9
          [] n \in {"A#", "Bb"} -> 10
          [] OTHER -> 11]

\* Mutant of note_name_to_midi: the octave taken without its offset of one
note_name_to_midi_no_offset(note_name, octave) ==
    LET base == IF note_name \in DOMAIN note_map THEN note_map[note_name]
                ELSE 0
    IN  12 * octave + base

note_name_to_midi(note_name, octave) ==
    LET base == IF note_name \in DOMAIN note_map THEN note_map[note_name]
                ELSE 0
    IN  12 * (octave + 1) + base

\* Mutant of add_note: the note_off put at the duration, not at the start
\* plus the duration
add_note_off_at_duration(track_events, note, velocity, start_tick, duration_ticks, channel) ==
    track_events \o <<<<start_tick, "note_on", note, velocity, channel>>,
                      <<duration_ticks, "note_off", note, velocity, channel>>>>

\* add_note: the note_on and the note_off, appended in this order
add_note(track_events, note, velocity, start_tick, duration_ticks, channel) ==
    LET off_tick == start_tick + duration_ticks
    IN  track_events \o <<<<start_tick, "note_on", note, velocity, channel>>,
                          <<off_tick, "note_off", note, velocity, channel>>>>

\* add_note for each <<note, velocity, start_tick, duration_ticks, channel>>
\* of a sequence, in order
RECURSIVE add_notes(_, _)
add_notes(track_events, notes) ==
    IF notes = <<>> THEN track_events
    ELSE LET n == Head(notes)
         IN  add_notes(add_note(track_events, n[1], n[2], n[3], n[4], n[5]),
                       Tail(notes))

\* ------------------------------------------------------------------- Init
\* The main block's steps 1-3.  A run that explores value draws plays one
\* measure of 4/4; a run that explores count draws any of the bounded
\* lengths and signatures.
Init ==
    /\ pc = "progression"
    /\ rand_focus \in Focuses
    /\ total_measures \in
           IF rand_focus[2] = "counts" THEN 0 .. MaxMeasures ELSE {1}
    /\ beats_per_measure \in
           IF rand_focus[2] = "counts" THEN 0 .. MaxBeats ELSE {4}
    /\ user_tempo \in IF rand_focus[1] = "combine" THEN {60, 180} ELSE {120}
    /\ chords = <<>>
    /\ scale_info = <<>>
    /\ drum_track = <<>>
    /\ bass_track = <<>>
    /\ harmony_track = <<>>
    /\ melody_track = <<>>
    /\ idx = 0
    /\ current_time = 0
    /\ scale_notes = <<>>
    /\ depth = 0
    /\ passes = 0
    /\ cur = <<>>
    /\ durations_list = <<>>
    /\ phrase = <<>>
    /\ lsys_idx = 0
    /\ mid = <<>>
    /\ saved = <<>>

\* ------------------------------------------- get_random_chord_progression
note_names == <<"C", "C#", "D", "D#", "E", "F", "F#", "G", "G#", "A", "A#",
                "B">>

mode_names == <<"major", "minor", "phrygian", "lydian">>

possible_modes ==
    [m \in {"major", "minor", "phrygian", "lydian"} |->
        CASE m = "major" -> <<0, 2, 4, 5, 7, 9, 11>>
          [] m = "minor" -> <<0, 2, 3, 5, 7, 8, 10>>
          [] m = "phrygian" -> <<0, 1, 3, 5, 7, 8, 10>>
          [] OTHER -> <<0, 2, 4, 6, 7, 9, 11>>]

\* u is the draw of random.random()
build_triads(base_note_midi, u) ==
    IF Below(u, 5)
    THEN <<base_note_midi, base_note_midi + 4, base_note_midi + 7>>
    ELSE <<base_note_midi, base_note_midi + 3, base_note_midi + 7>>

get_random_chord_progression ==
    /\ pc = "progression"
    /\ \E root_choice \in choice("chords", note_names),
          octave_choice \in randint_value("chords", 2, 5),
          mode_name \in choice("chords", mode_names) :
          LET intervals == possible_modes[mode_name]
              base_root_midi == note_name_to_midi(root_choice, octave_choice)
          IN  \E interval \in [1 .. total_measures ->
                                  choice("chords", intervals)],
                 u \in [1 .. total_measures -> random("chords")] :
                 /\ chords' = [k \in 1 .. total_measures |->
                                 build_triads(base_root_midi + interval[k],
                                              u[k])]
                 /\ scale_info' = <<root_choice, octave_choice, mode_name>>
    /\ pc' = "drums"
    /\ UNCHANGED <<rand_focus, total_measures, beats_per_measure, user_tempo,
                   drum_track, bass_track, harmony_track, melody_track, idx,
                   current_time, scale_notes, depth, passes, cur,
                   durations_list, phrase, lsys_idx, mid, saved>>

\* ------------------------------------------------- create_drum_track_chaos
\* int(0.1 * ticks_per_beat)
DrumDur(ticks_per_beat) == ticks_per_beat \div 10

\* One measure of the loop: the 4/4 backbone, then the random hits.
\* hits[k] = <<note, u, velocity>>, u the draw of random.random().
DrumMeasureNotes(measure_idx, beats, ticks_per_beat, hits) ==
    LET measure_start == measure_idx * beats * ticks_per_beat
        backbone ==
            IF beats = 4
            THEN <<<<36, 100, measure_start, DrumDur(ticks_per_beat), 9>>,
                   <<38, 100, measure_start + 2 * ticks_per_beat,
                     DrumDur(ticks_per_beat), 9>>>>
            ELSE <<>>
        random_hit(h) ==
            <<h[1], h[3],
              measure_start + (h[2] * beats * ticks_per_beat) \div RandomGrid,
              DrumDur(ticks_per_beat), 9>>
    IN  backbone \o [k \in 1 .. Len(hits) |-> random_hit(hits[k])]

DrumMeasure ==
    /\ pc = "drums"
    /\ idx < total_measures
    /\ \E random_hits \in randint_count("drums", 2, 8) :
          \E hits \in [1 .. random_hits ->
                          choice("drums", DRUM_NOTES) \X random("drums")
                              \X randint_value("drums", 40, 120)] :
             drum_track' =
                 add_notes(drum_track,
                           DrumMeasureNotes(idx, beats_per_measure,
                                            TICKS_PER_BEAT, hits))
    /\ idx' = idx + 1
    /\ UNCHANGED <<pc, rand_focus, total_measures, beats_per_measure,
                   user_tempo, chords, scale_info, bass_track, harmony_track,
                   melody_track, current_time, scale_notes, depth, passes,
                   cur, durations_list, phrase, lsys_idx, mid, saved>>

DrumReturn ==
    /\ pc = "drums"
    /\ idx = total_measures
    /\ pc' = "bass"
    /\ idx' = 0
    /\ current_time' = 0
    /\ UNCHANGED <<rand_focus, total_measures, beats_per_measure, user_tempo,
                   chords, scale_info, drum_track, bass_track, harmony_track,
                   melody_track, scale_notes, depth, passes, cur,
                   durations_list, phrase, lsys_idx, mid, saved>>

\* ------------------------------------------------- create_bass_track_chaos
\* int(beats_per_chord * ticks_per_beat), beats_per_chord = float(beats)
chord_length_ticks == beats_per_measure * TICKS_PER_BEAT

\* Mutant of sub_tick_length: one slot too many counted
sub_tick_length_off_by_one(chord_length, subdivs) ==
    IF subdivs > 0 THEN chord_length \div (subdivs + 1) ELSE chord_length

sub_tick_length(chord_length, subdivs) ==
    IF subdivs > 0 THEN chord_length \div subdivs ELSE chord_length

\* The pitch of one slot.  u1, u2 are the two draws of random.random();
\* shift is the draw of random.choice([-12, 0, 12]), used when u2 < 0.5.
BassPitch(chord, u1, u2, shift) ==
    LET chord_root == chord[1]
        chord_fifth == chord[3]
        note == IF Below(u1, 7) THEN chord_root ELSE chord_fifth
    IN  note + (IF Below(u2, 5) THEN shift ELSE 0)

\* One chord of the loop.  slots[k] = <<u1, u2, shift, velocity>>.
BassChordNotes(chord, t_start, sub_tick, slots) ==
    [k \in 1 .. Len(slots) |->
        <<BassPitch(chord, slots[k][1], slots[k][2], slots[k][3]),
          slots[k][4], t_start + (k - 1) * sub_tick, sub_tick, 1>>]

BassChord ==
    /\ pc = "bass"
    /\ idx < Len(chords)
    /\ \E subdivs \in randint_count("bass", 1, 5) :
          \E slots \in [1 .. subdivs ->
                           random("bass") \X random("bass")
                               \X choice("bass", <<-12, 0, 12>>)
                               \X randint_value("bass", 50, 100)] :
             bass_track' =
                 add_notes(bass_track,
                           BassChordNotes(chords[idx + 1], current_time,
                                          sub_tick_length(chord_length_ticks,
                                                          subdivs),
                                          slots))
    /\ current_time' = current_time + chord_length_ticks
    /\ idx' = idx + 1
    /\ UNCHANGED <<pc, rand_focus, total_measures, beats_per_measure,
                   user_tempo, chords, scale_info, drum_track, harmony_track,
                   melody_track, scale_notes, depth, passes, cur,
                   durations_list, phrase, lsys_idx, mid, saved>>

BassReturn ==
    /\ pc = "bass"
    /\ idx = Len(chords)
    /\ pc' = "harmony"
    /\ idx' = 0
    /\ current_time' = 0
    /\ UNCHANGED <<rand_focus, total_measures, beats_per_measure, user_tempo,
                   chords, scale_info, drum_track, bass_track, harmony_track,
                   melody_track, scale_notes, depth, passes, cur,
                   durations_list, phrase, lsys_idx, mid, saved>>

\* ---------------------------------------------- create_harmony_track_chaos
press_length(chord_length, presses) == chord_length \div presses

\* Mutant of note_dur: the division rounded up
note_dur_rounded_up(press_len, chord_notes) ==
    (press_len + Len(chord_notes) - 1) \div Len(chord_notes)

\* press_length // len(chord_notes)
note_dur(press_len, chord_notes) == press_len \div Len(chord_notes)

\* random.shuffle(chord_notes): the orders of a three-note chord
shuffle(part, chord_notes) ==
    IF ValuesFree(part)
    THEN {[j \in 1 .. 3 |-> chord_notes[p[j]]] :
             p \in {q \in [1 .. 3 -> 1 .. 3] : {q[1], q[2], q[3]} = 1 .. 3}}
    ELSE {chord_notes}

\* One chord of the loop.  press[p] = <<chord_notes, velocities>>: the
\* shuffled chord and the three velocities of press p.  time_ptr runs on
\* from one press into the next.
HarmonyChordNotes(time_ptr, press_len, press) ==
    [n \in 1 .. 3 * Len(press) |->
        LET p == ((n - 1) \div 3) + 1
            j == ((n - 1) % 3) + 1
            dur == note_dur(press_len, press[p][1])
        IN  <<press[p][1][j], press[p][2][j], time_ptr + (n - 1) * dur, dur,
              2>>]

HarmonyChord ==
    /\ pc = "harmony"
    /\ idx < Len(chords)
    /\ \E presses \in randint_count("harmony", 1, 3) :
          \E press \in [1 .. presses ->
                           shuffle("harmony", chords[idx + 1])
                               \X [1 .. 3 ->
                                      randint_value("harmony", 40, 90)]] :
             harmony_track' =
                 add_notes(harmony_track,
                           HarmonyChordNotes(current_time,
                                             press_length(chord_length_ticks,
                                                          presses),
                                             press))
    /\ current_time' = current_time + chord_length_ticks
    /\ idx' = idx + 1
    /\ UNCHANGED <<pc, rand_focus, total_measures, beats_per_measure,
                   user_tempo, chords, scale_info, drum_track, bass_track,
                   melody_track, scale_notes, depth, passes, cur,
                   durations_list, phrase, lsys_idx, mid, saved>>

HarmonyReturn ==
    /\ pc = "harmony"
    /\ idx = Len(chords)
    /\ pc' = "scale"
    /\ idx' = 0
    /\ current_time' = 0
    /\ UNCHANGED <<rand_focus, total_measures, beats_per_measure, user_tempo,
                   chords, scale_info, drum_track, bass_track, harmony_track,
                   melody_track, scale_notes, depth, passes, cur,
                   durations_list, phrase, lsys_idx, mid, saved>>

\* ------------------------------------------- the melody's scale (step 9)
scale_modes ==
    <<<<0, 2, 4, 5, 7, 9, 11>>, <<0, 2, 3, 5, 7, 8, 10>>,
      <<0, 1, 3, 5, 7, 8, 10>>, <<0, 2, 4, 6, 7, 9, 11>>, <<0, 2, 4, 7, 9>>>>

\* for oct_shift in [0, 1]: for interval in scale_mode_intervals
build_scale_notes(random_root_midi, scale_mode_intervals) ==
    LET n == Len(scale_mode_intervals)
    IN  [k \in 1 .. 2 * n |->
            random_root_midi + scale_mode_intervals[((k - 1) % n) + 1]
                + 12 * ((k - 1) \div n)]

BuildScale ==
    /\ pc = "scale"
    /\ \E scale_mode_intervals \in choice("melody", scale_modes),
          random_root_name \in choice("melody", note_names),
          random_root_oct \in randint_value("melody", 3, 5) :
          scale_notes' =
              build_scale_notes(note_name_to_midi(random_root_name,
                                                  random_root_oct),
                                scale_mode_intervals)
    /\ pc' = "melody_begin"
    /\ UNCHANGED <<rand_focus, total_measures, beats_per_measure, user_tempo,
                   chords, scale_info, drum_track, bass_track, harmony_track,
                   melody_track, idx, current_time, depth, passes, cur,
                   durations_list, phrase, lsys_idx, mid, saved>>

\* ------------------------------------------- l_system, lsystem_durations
rules == [c \in {"A", "B"} |-> IF c = "A" THEN <<"A", "B">> ELSE <<"A">>]

\* Mutant of l_system_pass: only the first symbol rewritten
l_system_pass_first_only(s, rls) ==
    IF s = <<>> THEN <<>>
    ELSE (IF Head(s) \in DOMAIN rls THEN rls[Head(s)] ELSE <<Head(s)>>)
             \o Tail(s)

\* One pass of l_system's loop: every symbol replaced by its rule, or kept
RECURSIVE l_system_pass(_, _)
l_system_pass(s, rls) ==
    IF s = <<>> THEN <<>>
    ELSE (IF Head(s) \in DOMAIN rls THEN rls[Head(s)] ELSE <<Head(s)>>)
             \o l_system_pass(Tail(s), rls)

\* A -> 1.0, anything else -> 0.5, in half beats
duration_of(c) == IF c = "A" THEN 2 ELSE 1

\* create_melody_track_chaos calls lsystem_durations(random.randint(2, 5)),
\* which calls l_system("A", rules, depth)
MelodyBegin ==
    /\ pc = "melody_begin"
    /\ depth' \in randint_count("melody_setup", 2, 5)
    /\ cur' = <<"A">>
    /\ passes' = 0
    /\ pc' = "l_system"
    /\ UNCHANGED <<rand_focus, total_measures, beats_per_measure, user_tempo,
                   chords, scale_info, drum_track, bass_track, harmony_track,
                   melody_track, idx, current_time, scale_notes,
                   durations_list, phrase, lsys_idx, mid, saved>>

LsysPass ==
    /\ pc = "l_system"
    /\ passes < depth
    /\ cur' = l_system_pass(cur, rules)
    /\ passes' = passes + 1
    /\ UNCHANGED <<pc, rand_focus, total_measures, beats_per_measure,
                   user_tempo, chords, scale_info, drum_track, bass_track,
                   harmony_track, melody_track, idx, current_time,
                   scale_notes, depth, durations_list, phrase, lsys_idx, mid,
                   saved>>

LsysDurations ==
    /\ pc = "l_system"
    /\ passes = depth
    /\ durations_list' = [k \in 1 .. Len(cur) |-> duration_of(cur[k])]
    /\ pc' = "phrase"
    /\ UNCHANGED <<rand_focus, total_measures, beats_per_measure, user_tempo,
                   chords, scale_info, drum_track, bass_track, harmony_track,
                   melody_track, idx, current_time, scale_notes, depth,
                   passes, cur, phrase, lsys_idx, mid, saved>>

\* Mutant of MelodyPhrase: the phrase drawn over the chords, not the scale
MelodyPhraseOverChords ==
    /\ pc = "phrase"
    /\ IF Len(chords) = 0
       THEN /\ pc' = "crashed"
            /\ UNCHANGED <<phrase, lsys_idx>>
       ELSE /\ \E phrase_length \in randint_count("melody_setup", 3, 7) :
                  phrase' \in [1 .. phrase_length ->
                                  randint_value("melody", 0, Len(chords) - 1)]
            /\ lsys_idx' = 0
            /\ pc' = "melody"
    /\ UNCHANGED <<rand_focus, total_measures, beats_per_measure, user_tempo,
                   chords, scale_info, drum_track, bass_track, harmony_track,
                   melody_track, idx, current_time, scale_notes, depth,
                   passes, cur, durations_list, mid, saved>>

\* ----------------------------------------------- create_melody_track_chaos
\* phrase = [random.randint(0, len(scale_notes) - 1) ...]; randint raises
\* ValueError on an empty range
MelodyPhrase ==
    /\ pc = "phrase"
    /\ IF Len(scale_notes) = 0
       THEN /\ pc' = "crashed"
            /\ UNCHANGED <<phrase, lsys_idx>>
       ELSE /\ \E phrase_length \in randint_count("melody_setup", 3, 7) :
                  phrase' \in [1 .. phrase_length ->
                                  randint_value("melody", 0,
                                                Len(scale_notes) - 1)]
            /\ lsys_idx' = 0
            /\ pc' = "melody"
    /\ UNCHANGED <<rand_focus, total_measures, beats_per_measure, user_tempo,
                   chords, scale_info, drum_track, bass_track, harmony_track,
                   melody_track, idx, current_time, scale_notes, depth,
                   passes, cur, durations_list, mid, saved>>

melody_sub_tick(chord_length, notes_in_this_chord) ==
    IF notes_in_this_chord # 0 THEN chord_length \div notes_in_this_chord
    ELSE chord_length

\* int(dur_beats * ticks_per_beat), dur_beats in half beats
note_dur_ticks(dur_beats, ticks_per_beat) == (dur_beats * ticks_per_beat) \div 2

\* Mutant of melody_duration: the min() left out
melody_duration_unclamped(dur_ticks, sub_tick) == dur_ticks

\* duration = min(note_dur_ticks, sub_tick)
melody_duration(dur_ticks, sub_tick) ==
    IF dur_ticks <= sub_tick THEN dur_ticks ELSE sub_tick

\* u1, u2 are the draws of the if and the elif
MelodyPitch(note, u1, u2) ==
    IF Below(u1, 2) THEN note + 12
    ELSE IF Below(u2, 2) THEN note - 12 ELSE note

\* The notes of one chord from draw k on.  draws[k] = <<note_idx, u1, u2,
\* velocity>>; time and lidx are current_time and lsys_idx before note k.
RECURSIVE MelodyChordNotes(_, _, _, _, _)
MelodyChordNotes(draws, k, time, lidx, sub_tick) ==
    IF k > Len(draws) THEN <<>>
    ELSE LET d == draws[k]
             dur_beats == durations_list[(lidx % Len(durations_list)) + 1]
             duration == melody_duration(note_dur_ticks(dur_beats,
                                                        TICKS_PER_BEAT),
                                         sub_tick)
         IN  <<<<MelodyPitch(scale_notes[d[1] + 1], d[2], d[3]), d[4], time,
                 duration, 0>>>>
                 \o MelodyChordNotes(draws, k + 1, time + duration, lidx + 1,
                                     sub_tick)

\* current_time after the notes: the last note's start plus its duration
MelodyCursor(notes, time) ==
    IF notes = <<>> THEN time
    ELSE notes[Len(notes)][3] + notes[Len(notes)][4]

MelodyChord ==
    /\ pc = "melody"
    /\ idx < Len(chords)
    /\ \E notes_in_this_chord \in randint_count("melody", 2, 6) :
          \E draws \in [1 .. notes_in_this_chord ->
                           choice("melody", phrase) \X random("melody")
                               \X random("melody")
                               \X randint_value("melody", 60, 127)] :
             LET notes ==
                     MelodyChordNotes(draws, 1, current_time, lsys_idx,
                                      melody_sub_tick(chord_length_ticks,
                                                      notes_in_this_chord))
             IN  /\ melody_track' = add_notes(melody_track, notes)
                 /\ current_time' = MelodyCursor(notes, current_time)
                 /\ lsys_idx' = lsys_idx + notes_in_this_chord
    /\ idx' = idx + 1
    /\ UNCHANGED <<pc, rand_focus, total_measures, beats_per_measure,
                   user_tempo, chords, scale_info, drum_track, bass_track,
                   harmony_track, scale_notes, depth, passes, cur,
                   durations_list, phrase, mid, saved>>

MelodyReturn ==
    /\ pc = "melody"
    /\ idx = Len(chords)
    /\ pc' = "combine"
    /\ idx' = 0
    /\ UNCHANGED <<rand_focus, total_measures, beats_per_measure, user_tempo,
                   chords, scale_info, drum_track, bass_track, harmony_track,
                   melody_track, current_time, scale_notes, depth, passes,
                   cur, durations_list, phrase, lsys_idx, mid, saved>>

\* -------------------------------------------------- combine_and_write_midi
\* Step 11: the dict keeps its insertion order
tracks_dict ==
    <<<<"Drums", drum_track>>, <<"Bass", bass_track>>,
      <<"Harmony", harmony_track>>, <<"Melody", melody_track>>>>

\* sorted(events, key=lambda e: e[0]) is stable.  The order as positions of
\* events: position i goes behind every position already placed whose tick
\* is not greater.
RECURSIVE sort_order(_, _, _)
sort_order(events, placed, i) ==
    IF i > Len(events) THEN placed
    ELSE LET before ==
                 {k \in 1 .. Len(placed) :
                     \A j \in 1 .. k : events[placed[j]][1] <= events[i][1]}
             n == Cardinality(before)
         IN  sort_order(events,
                        SubSeq(placed, 1, n) \o <<i>>
                            \o SubSeq(placed, n + 1, Len(placed)),
                        i + 1)

\* Mutant of sorted_order: sorted(events) without the key, which compares
\* the whole tuples, so that on one tick a note_off sorts before a note_on
RECURSIVE sort_order_by_tuple(_, _, _)
sort_order_by_tuple(events, placed, i) ==
    IF i > Len(events) THEN placed
    ELSE LET le(a, b) ==
                 \/ a[1] < b[1]
                 \/ a[1] = b[1] /\ (a[2] = "note_off" \/ b[2] = "note_on")
             before ==
                 {k \in 1 .. Len(placed) :
                     \A j \in 1 .. k : le(events[placed[j]], events[i])}
             n == Cardinality(before)
         IN  sort_order_by_tuple(events,
                                 SubSeq(placed, 1, n) \o <<i>>
                                     \o SubSeq(placed, n + 1, Len(placed)),
                                 i + 1)

sorted_order_by_tuple(events) == sort_order_by_tuple(events, <<>>, 1)

sorted_order(events) == sort_order(events, <<>>, 1)

sorted_by_tick(events) ==
    LET order == sorted_order(events)
    IN  [k \in 1 .. Len(events) |-> events[order[k]]]

delta_time(abs_time, prev_time) == abs_time - prev_time

\* Mutant of note_messages: prev_time never advanced
note_messages_stale_cursor(events_sorted) ==
    [k \in 1 .. Len(events_sorted) |->
        LET e == events_sorted[k]
        IN  [type |-> IF e[2] = "note_on" THEN "note_on" ELSE "note_off",
             note |-> e[3], velocity |-> e[4],
             time |-> delta_time(e[1], 0), channel |-> e[5]]]

\* The loop over events_sorted: one note message per event
note_messages(events_sorted) ==
    [k \in 1 .. Len(events_sorted) |->
        LET e == events_sorted[k]
            prev_time == IF k = 1 THEN 0 ELSE events_sorted[k - 1][1]
        IN  [type |-> IF e[2] = "note_on" THEN "note_on" ELSE "note_off",
             note |-> e[3], velocity |-> e[4],
             time |-> delta_time(e[1], prev_time), channel |-> e[5]]]

\* Mutant of track_channel: chan = 0 kept for every part
track_channel_default(name) == IF name = "Drums" THEN 9 ELSE 0

track_channel(name) ==
    CASE name = "Drums" -> 9
      [] name = "Bass" -> 1
      [] name = "Harmony" -> 2
      [] OTHER -> 0

\* int(60000000 / tempo_bpm)
microseconds_per_beat(tempo_bpm) == 60000000 \div tempo_bpm

CombineBegin ==
    /\ pc = "combine"
    /\ mid' = <<<<[type |-> "set_tempo",
                   tempo |-> microseconds_per_beat(user_tempo),
                   time |-> 0]>>>>
    /\ idx' = 0
    /\ pc' = "tracks"
    /\ UNCHANGED <<rand_focus, total_measures, beats_per_measure, user_tempo,
                   chords, scale_info, drum_track, bass_track, harmony_track,
                   melody_track, current_time, scale_notes, depth, passes,
                   cur, durations_list, phrase, lsys_idx, saved>>

\* One pass of the loop over tracks_dict.items()
midi_track(name, events, program_num) ==
    <<[type |-> "program_change", program |-> program_num,
       channel |-> track_channel(name), time |-> 0]>>
        \o note_messages(sorted_by_tick(events))
        \o <<[type |-> "end_of_track", time |-> 0]>>

SerializeTrack ==
    /\ pc = "tracks"
    /\ idx < Len(tracks_dict)
    /\ LET name == tracks_dict[idx + 1][1]
           events == tracks_dict[idx + 1][2]
       IN  \E program_num \in
                  IF name = "Drums" THEN {0}
                  ELSE choice("combine", RANDOM_INSTRUMENTS) :
              mid' = Append(mid, midi_track(name, events, program_num))
    /\ idx' = idx + 1
    /\ UNCHANGED <<pc, rand_focus, total_measures, beats_per_measure,
                   user_tempo, chords, scale_info, drum_track, bass_track,
                   harmony_track, melody_track, current_time, scale_notes,
                   depth, passes, cur, durations_list, phrase, lsys_idx,
                   saved>>

Save ==
    /\ pc = "tracks"
    /\ idx = Len(tracks_dict)
    /\ saved' = mid
    /\ pc' = "done"
    /\ UNCHANGED <<rand_focus, total_measures, beats_per_measure, user_tempo,
                   chords, scale_info, drum_track, bass_track, harmony_track,
                   melody_track, idx, current_time, scale_notes, depth,
                   passes, cur, durations_list, phrase, lsys_idx, mid>>

Next ==
    \/ get_random_chord_progression
    \/ DrumMeasure
    \/ DrumReturn
    \/ BassChord
    \/ BassReturn
    \/ HarmonyChord
    \/ HarmonyReturn
    \/ BuildScale
    \/ MelodyBegin
    \/ LsysPass
    \/ LsysDurations
    \/ MelodyPhrase
    \/ MelodyChord
    \/ MelodyReturn
    \/ CombineBegin
    \/ SerializeTrack
    \/ Save

Spec == Init /\ [][Next]_vars

\* ================================================================ claims
\* Shared vocabulary of the claims below.

Tick(e) == e[1]
Kind(e) == e[2]
Pitch(e) == e[3]

\* Note j of a generator's track: its note_on and note_off events
OnOf(track, j) == track[2 * j - 1]
OffOf(track, j) == track[2 * j]
NoteCount(track) == Len(track) \div 2

GeneratorTracks == <<drum_track, bass_track, harmony_track, melody_track>>

\* The latest note_off tick of a non-empty track
LatestOff(track) ==
    CHOOSE t \in {Tick(OffOf(track, j)) : j \in 1 .. NoteCount(track)} :
        \A j \in 1 .. NoteCount(track) : Tick(OffOf(track, j)) <= t

\* The generator with this pc has returned
Past(stage) ==
    LET order == <<"progression", "drums", "bass", "harmony", "scale",
                   "melody_begin", "l_system", "phrase", "melody", "combine",
                   "tracks", "done">>
        pos(p) == CHOOSE k \in 1 .. Len(order) : order[k] = p
    IN  pc # "crashed" /\ pos(pc) > pos(stage)

\* The track serialized last, while combine_and_write_midi runs and after
Serialized == pc \in {"tracks", "done"} /\ idx >= 1
LastEvents == tracks_dict[idx][2]
LastMessages == SubSeq(mid[idx + 1], 2, Len(mid[idx + 1]) - 1)

\* The running sum of the deltas of a sequence of messages
RECURSIVE Accumulate(_, _)
Accumulate(msgs, cursor) ==
    IF msgs = <<>> THEN <<>>
    ELSE <<cursor + Head(msgs).time>>
             \o Accumulate(Tail(msgs), cursor + Head(msgs).time)

\* Where a stable sort by tick puts event i: behind the events of a smaller
\* tick and behind the earlier events of its own tick
StablePos(events, i) ==
    Cardinality({j \in 1 .. Len(events) : Tick(events[j]) < Tick(events[i])})
        + Cardinality({j \in 1 .. i : Tick(events[j]) = Tick(events[i])})

\* C1: in a serialized track every note message has a delta >= 0, and the
\* running sum of the deltas from 0 gives, position by position, the ticks
\* of the track's events in sorted order.
C1_DeltasRoundTrip ==
    Serialized =>
        LET acc == Accumulate(LastMessages, 0)
        IN  /\ Len(LastMessages) = Len(LastEvents)
            /\ \A k \in 1 .. Len(LastMessages) : LastMessages[k].time >= 0
            /\ \A k \in 1 .. Len(acc) - 1 : acc[k] <= acc[k + 1]
            /\ \A i \in 1 .. Len(LastEvents) :
                   acc[StablePos(LastEvents, i)] = Tick(LastEvents[i])

\* C1 witness: a drum track whose events were appended out of tick order
\* has been serialized.
C1_Witness ==
    /\ pc = "done"
    /\ \E i, j \in 1 .. Len(drum_track) :
           i < j /\ Tick(drum_track[i]) > Tick(drum_track[j])
    /\ Len(mid[2]) = Len(drum_track) + 2

\* The notes of a track that start inside chord k (0-based)
NotesOfChord(track, k) ==
    {j \in 1 .. NoteCount(track) :
        /\ k * chord_length_ticks <= Tick(OnOf(track, j))
        /\ Tick(OnOf(track, j)) < (k + 1) * chord_length_ticks}

\* C2 as claimed: the Harmony track's latest note_off is at
\* C * beatsPerChord * 480, for C >= 1 chords and beatsPerChord >= 1.
C2_AsClaimed ==
    (Past("harmony") /\ Len(chords) >= 1 /\ beats_per_measure >= 1) =>
        LatestOff(harmony_track) = Len(chords) * chord_length_ticks

\* C2 as amended: every chord's first sub-note starts at k * chordTicks,
\* the sub-notes of a chord abut with no gap (across presses too), and the
\* chord's last sub-note ends at (k + 1) * chordTicks, except that a chord
\* of three presses ends 3 * (beatsPerChord mod 3) ticks earlier.
C2_HarmonySpan ==
    (pc \notin {"progression", "drums", "bass"} /\ beats_per_measure >= 1) =>
        LET done == IF pc = "harmony" THEN idx ELSE Len(chords)
        IN  /\ NoteCount(harmony_track) * 2 = Len(harmony_track)
            /\ \A j \in 1 .. NoteCount(harmony_track) :
                   Tick(OnOf(harmony_track, j)) < done * chord_length_ticks
            /\ \A k \in 0 .. done - 1 :
                   LET notes == NotesOfChord(harmony_track, k)
                       first == CHOOSE j \in notes : \A n \in notes : j <= n
                       last == CHOOSE j \in notes : \A n \in notes : n <= j
                       early == IF Cardinality(notes) = 9
                                THEN 3 * (beats_per_measure % 3) ELSE 0
                   IN  /\ Cardinality(notes) \in {3, 6, 9}
                       /\ notes = first .. last
                       /\ Tick(OnOf(harmony_track, first))
                              = k * chord_length_ticks
                       /\ \A j \in first .. last - 1 :
                              Tick(OnOf(harmony_track, j + 1))
                                  = Tick(OffOf(harmony_track, j))
                       /\ Tick(OffOf(harmony_track, last))
                              = (k + 1) * chord_length_ticks - early

\* C2 witness: a finished run of two 4-beat chords whose last chord was
\* pressed three times and ends 3 ticks before its 3840.
C2_Witness ==
    /\ pc = "done"
    /\ Len(chords) = 2
    /\ beats_per_measure = 4
    /\ Cardinality(NotesOfChord(harmony_track, 1)) = 9
    /\ LatestOff(harmony_track) = 3837

\* C3: the Bass track's latest note_off is at C * beatsPerChord * 480,
\* every note_on after the first sits at the previous note's note_off, and
\* the first note of chord k starts at k * beatsPerChord * 480.
C3_BassSpan ==
    (pc \notin {"progression", "drums"} /\ beats_per_measure >= 1) =>
        LET done == IF pc = "bass" THEN idx ELSE Len(chords)
        IN  /\ NoteCount(bass_track) * 2 = Len(bass_track)
            /\ \A j \in 1 .. NoteCount(bass_track) - 1 :
                   Tick(OnOf(bass_track, j + 1)) = Tick(OffOf(bass_track, j))
            /\ \A k \in 0 .. done - 1 :
                   LET notes == NotesOfChord(bass_track, k)
                       first == CHOOSE j \in notes : \A n \in notes : j <= n
                   IN  /\ notes # {}
                       /\ Tick(OnOf(bass_track, first))
                              = k * chord_length_ticks
            /\ done >= 1 =>
                   LatestOff(bass_track) = done * chord_length_ticks
            /\ pc = "bass" => current_time = done * chord_length_ticks

\* C3 witness: a finished run of two 4-beat chords, one of them split in
\* five and one in three, whose bass ends at 2 * 4 * 480.
C3_Witness ==
    /\ pc = "done"
    /\ Len(chords) = 2
    /\ beats_per_measure = 4
    /\ Cardinality(NotesOfChord(bass_track, 0)) = 5
    /\ Cardinality(NotesOfChord(bass_track, 1)) = 3
    /\ LatestOff(bass_track) = 3840

\* C4: in every generator's track the events come in pairs, a note_on and
\* a note_off of the same pitch, velocity and channel at a tick not
\* earlier; so per (pitch, channel) there are as many note_on as note_off
\* events, and every note_off has a note_on at an earlier or equal tick.
C4_Pairs ==
    \A t \in 1 .. 4 :
        LET track == GeneratorTracks[t]
            ons(n, c) == {i \in 1 .. Len(track) :
                             /\ Kind(track[i]) = "note_on"
                             /\ Pitch(track[i]) = n /\ track[i][5] = c}
            offs(n, c) == {i \in 1 .. Len(track) :
                              /\ Kind(track[i]) = "note_off"
                              /\ Pitch(track[i]) = n /\ track[i][5] = c}
        IN  /\ NoteCount(track) * 2 = Len(track)
            /\ \A j \in 1 .. NoteCount(track) :
                   LET on == OnOf(track, j)
                       off == OffOf(track, j)
                   IN  /\ Kind(on) = "note_on"
                       /\ Kind(off) = "note_off"
                       /\ <<on[3], on[4], on[5]>> = <<off[3], off[4], off[5]>>
                       /\ Tick(off) >= Tick(on)
            /\ \A p \in {<<Pitch(track[i]), track[i][5]>> :
                            i \in 1 .. Len(track)} :
                   LET on == ons(p[1], p[2])
                       off == offs(p[1], p[2])
                   IN  /\ Cardinality(on) = Cardinality(off)
                       /\ \A f \in off :
                              \E o \in on : Tick(track[o]) <= Tick(track[f])

\* C4 witness: all four generators have produced notes, the drums two
\* notes of one pitch.
C4_Witness ==
    /\ pc = "done"
    /\ \A t \in 1 .. 4 : Len(GeneratorTracks[t]) >= 4
    /\ \E i, j \in 1 .. NoteCount(drum_track) :
           i # j /\ Pitch(OnOf(drum_track, i)) = Pitch(OnOf(drum_track, j))

\* C5: combine_and_write_midi emits the tempo track, then Drums, Bass,
\* Harmony, Melody in this order; the tempo track holds only a set_tempo at
\* time 0; a part's track starts with its one program change at time 0 on
\* the part's channel (9, 1, 2, 0), goes on with note messages only and
\* ends with an end_of_track at delta 0; the file gets exactly 5 tracks.
C5_TrackLayout ==
    /\ pc \in {"tracks", "done"} =>
           /\ Len(mid) = idx + 1
           /\ Len(mid[1]) = 1
           /\ mid[1][1].type = "set_tempo"
           /\ mid[1][1].time = 0
           /\ \A i \in 1 .. idx :
                  LET track == mid[i + 1]
                      events == GeneratorTracks[i]
                      channel == <<9, 1, 2, 0>>[i]
                  IN  /\ Len(track) = Len(events) + 2
                      /\ track[1].type = "program_change"
                      /\ track[1].time = 0
                      /\ track[1].channel = channel
                      /\ \A k \in 2 .. Len(track) - 1 :
                             /\ track[k].type \in {"note_on", "note_off"}
                             /\ track[k].channel = channel
                      /\ track[Len(track)]
                             = [type |-> "end_of_track", time |-> 0]
    /\ pc = "done" => Len(saved) = 5 /\ saved = mid

\* C5 witness: a file of four non-empty parts has been saved.
C5_Witness ==
    /\ pc = "done"
    /\ Len(saved) = 5
    /\ \A i \in 2 .. 5 : Len(saved[i]) > 2

\* C6: with no chords the bass, the harmony and the melody generator raise
\* no error and leave their tracks empty.
C6_EmptyProgression ==
    (total_measures = 0 /\ pc # "progression") =>
        /\ chords = <<>>
        /\ pc # "crashed"
        /\ bass_track = <<>>
        /\ harmony_track = <<>>
        /\ melody_track = <<>>

\* C6 witness: a run without chords has passed the three generators (the
\* melody with its scale and phrase) and has been saved.
C6_Witness ==
    /\ pc = "done"
    /\ total_measures = 0
    /\ scale_notes # <<>>
    /\ phrase # <<>>

\* Every pitch the generators can compute, over the whole range of every
\* draw: the first and the last note of DRUM_NOTES bound the drum pitches.
AllKeys ==
    {note_name_to_midi(note_names[r], o) + possible_modes[m][i] :
        r \in 1 .. 12, o \in 2 .. 5, m \in DOMAIN possible_modes,
        i \in 1 .. 7}
AllChords == {build_triads(b, u) : b \in AllKeys, u \in 0 .. RandomGrid - 1}
AllBassPitches ==
    {BassPitch(c, u1, u2, s) :
        c \in AllChords, u1 \in 0 .. RandomGrid - 1,
        u2 \in 0 .. RandomGrid - 1, s \in {-12, 0, 12}}
AllHarmonyPitches == UNION {{c[1], c[2], c[3]} : c \in AllChords}
AllScaleNotes ==
    UNION {{build_scale_notes(note_name_to_midi(note_names[r], o),
                              scale_modes[m])[k] :
               k \in 1 .. 2 * Len(scale_modes[m])} :
              r \in 1 .. 12, o \in 3 .. 5, m \in 1 .. 5}
AllMelodyPitches ==
    {MelodyPitch(n, u1, u2) :
        n \in AllScaleNotes, u1 \in 0 .. RandomGrid - 1,
        u2 \in 0 .. RandomGrid - 1}
AllPitches ==
    AllBassPitches \cup AllHarmonyPitches \cup AllMelodyPitches
        \cup {DRUM_NOTES[k] : k \in 1 .. Len(DRUM_NOTES)}

\* C7 as claimed: a run that starts can choose its draws so that a note
\* gets a pitch outside 0..127.
C7_AsClaimed ==
    pc = "progression" => \E n \in AllPitches : n \notin 0 .. 127

\* C7 as amended: pitches are not clamped, and none needs to be: every
\* note event of every track has a pitch from 24 to 118.
C7_PitchRange ==
    \A t \in 1 .. 4 :
        \A i \in 1 .. Len(GeneratorTracks[t]) :
            Pitch(GeneratorTracks[t][i]) \in 24 .. 118

\* C7 witness: the lowest pitch there is, a bass note of 24.
C7_Witness ==
    /\ pc = "done"
    /\ \E i \in 1 .. Len(bass_track) : Pitch(bass_track[i]) = 24

\* length(0) = 1, length(1) = 2, length(d) = length(d - 1) + length(d - 2)
RECURSIVE LsysLength(_)
LsysLength(d) ==
    IF d = 0 THEN 1
    ELSE IF d = 1 THEN 2 ELSE LsysLength(d - 1) + LsysLength(d - 2)

\* C8: after d passes over the axiom "A" l_system's string has the length
\* length(d) of the recurrence, and lsystem_durations' list has the length
\* of the final string, each entry 1.0 or 0.5 (2 or 1 half beats).
C8_LsysLength ==
    /\ pc = "l_system" => Len(cur) = LsysLength(passes)
    /\ Past("l_system") =>
           /\ passes = depth
           /\ Len(durations_list) = LsysLength(depth)
           /\ \A k \in 1 .. Len(durations_list) :
                  /\ durations_list[k] \in {1, 2}
                  /\ durations_list[k] = 2 <=> cur[k] = "A"

\* C8 witness: five passes have been made and the 13 durations built.
C8_Witness ==
    /\ Past("l_system")
    /\ depth = 5
    /\ Len(durations_list) = 13
    /\ \E k \in 1 .. 13 : durations_list[k] = 1

\* The event a note message stands for, at its accumulated tick
EmittedEvents ==
    LET acc == Accumulate(LastMessages, 0)
    IN  [k \in 1 .. Len(LastMessages) |->
            <<acc[k], LastMessages[k].type, LastMessages[k].note,
              LastMessages[k].velocity, LastMessages[k].channel>>]

\* C9: the serializer's sort is stable, every event is emitted where a
\* stable sort by tick puts it; so each note's note_on message comes before
\* its own note_off message, and in the Bass and Harmony tracks the
\* note_off of one slot comes before the note_on of the next slot.
C9_StableSort ==
    Serialized =>
        /\ Len(LastMessages) = Len(LastEvents)
        /\ LET emitted == EmittedEvents
           IN  \A i \in 1 .. Len(LastEvents) :
                   emitted[StablePos(LastEvents, i)] = LastEvents[i]
        /\ \A j \in 1 .. NoteCount(LastEvents) :
               StablePos(LastEvents, 2 * j - 1) < StablePos(LastEvents, 2 * j)
        /\ tracks_dict[idx][1] \in {"Bass", "Harmony"} =>
               \A j \in 1 .. NoteCount(LastEvents) - 1 :
                   StablePos(LastEvents, 2 * j)
                       < StablePos(LastEvents, 2 * j + 1)

\* C9 witness: a bass track of zero-duration notes, all on one tick, has
\* been serialized.
C9_Witness ==
    /\ Serialized
    /\ tracks_dict[idx][1] = "Bass"
    /\ NoteCount(bass_track) >= 2
    /\ \A i \in 1 .. Len(bass_track) : Tick(bass_track[i]) = 0

\* C10: every melody note lasts min(L-system duration in ticks, chordTicks
\* div noteCount); the cursor at which chord k's first note starts is at
\* most k * chordTicks, and no note_off comes after chordCount * chordTicks.
C10_MelodyBehindGrid ==
    /\ pc = "melody" => current_time <= idx * chord_length_ticks
    /\ \A j \in 1 .. NoteCount(melody_track) :
           LET dur == Tick(OffOf(melody_track, j)) - Tick(OnOf(melody_track, j))
               ticks == note_dur_ticks(
                            durations_list[((j - 1) % Len(durations_list)) + 1],
                            TICKS_PER_BEAT)
           IN  /\ dur <= ticks
               /\ dur < ticks =>
                      \E n \in 2 .. 6 : dur = chord_length_ticks \div n
               /\ Tick(OffOf(melody_track, j))
                      <= Len(chords) * chord_length_ticks

\* C10 witness: after a 2-beat chord of three notes, the first of them cut
\* to its share of 320 ticks, the second chord starts before tick 960.
C10_Witness ==
    /\ pc = "melody"
    /\ idx = 1
    /\ beats_per_measure = 2
    /\ NoteCount(melody_track) = 3
    /\ current_time < chord_length_ticks
    /\ Tick(OffOf(melody_track, 1)) - Tick(OnOf(melody_track, 1)) = 320

====
